---- MODULE Spec2Model ----
(***************************************************************************)
(* Grover's search as built by the notebook Concept/2Q.ipynb:              *)
(* phase_oracle, diffuser and Grover construct a circuit (an ordered list  *)
(* of instructions); the simulator backends run it on a register of n      *)
(* qubits.                                                                 *)
(*                                                                         *)
(* Amplitudes.  Every matrix the notebook builds is real, with entries     *)
(* that are integers divided by a power of sqrt(2).  An amplitude vector   *)
(* is therefore kept exactly as [amp, sc]: the amplitude at index i is     *)
(* amp[i] / sqrt(2)^sc, with amp[i] an integer.                            *)
(***************************************************************************)
EXTENDS Integers, Sequences, FiniteSets, TLC

\* ---------------------------------------------------------------- bounds
MaxN == 2          \* registers of 1..MaxN qubits
MaxLen == 2        \* marked lists of up to MaxLen entries (plus the full list)
MaxR == 2          \* explicit round counts -1..MaxR
MaxAmp == 1        \* input amplitudes -MaxAmp..MaxAmp
MaxSupport == 2    \* input vectors with at most MaxSupport non-zero entries
MaxApply == 2      \* a transform is applied at most MaxApply times in a row

VARIABLES
    fn,                          \* the function the cell calls
    n,                           \* number of qubits
    indices_of_marked_elements,  \* the caller's list of marked indices
    r_supplied,                  \* did the caller pass r (else the default 0)
    r_arg,                       \* value of parameter r at entry
    r,                           \* local r of Grover
    round,                       \* iterations of the round loop completed
    pc,                          \* position in the called function
    err,                         \* exception raised, "" if none
    qc,                          \* the circuit under construction / returned
    psi0,                        \* amplitude vector a transform is applied to
    psi,                         \* current amplitude vector
    applied,                     \* times the built transform was applied
    counts,                      \* measured value of a shot, -1 before any
    circuit                      \* outcome of the Grover call of an earlier cell

vars == <<fn, n, indices_of_marked_elements, r_supplied, r_arg, r, round, pc,
          err, qc, psi0, psi, applied, counts, circuit>>

\* ------------------------------------------------------------ arithmetic
RECURSIVE Pow2(_)
Pow2(k) == IF k = 0 THEN 1 ELSE 2 * Pow2(k - 1)

Dim(nq) == Pow2(nq)

Bit(i, q) == (i \div Pow2(q)) % 2

RECURSIVE SumTo(_, _)
\* f[0] + ... + f[k]
SumTo(f, k) == IF k < 0 THEN 0 ELSE f[k] + SumTo(f, k - 1)

RECURSIVE isqrtIn(_, _, _)
\* largest s in lo..hi with s*s <= x, given lo*lo <= x < (hi+1)*(hi+1)
isqrtIn(x, lo, hi) ==
    IF lo = hi THEN lo
    ELSE LET mid == (lo + hi + 1) \div 2
         IN IF mid * mid <= x THEN isqrtIn(x, mid, hi) ELSE isqrtIn(x, lo, mid - 1)

\* np.sqrt on a fixed-point value: floor of the square root
isqrt(x) == isqrtIn(x, 0, 46340)

\* ------------------------------------------------------------ amplitudes
Vec(a, sc) == [amp |-> a, sc |-> sc]

AllZero(a) == \A i \in DOMAIN a : a[i] = 0
AllEven(a) == \A i \in DOMAIN a : a[i] % 2 = 0

RECURSIVE Normalise(_)
\* canonical representative of amp / sqrt(2)^sc
Normalise(st) ==
    IF AllZero(st.amp) THEN Vec(st.amp, 0)
    ELSE IF AllEven(st.amp)
         THEN Normalise(Vec([i \in DOMAIN st.amp |-> st.amp[i] \div 2], st.sc - 2))
         ELSE st

\* |0...0>, the state every simulator run starts from
ZeroState(nq) == Vec([i \in 0..(Dim(nq) - 1) |-> IF i = 0 THEN 1 ELSE 0], 0)

\* ---------------------------------------------------------- instructions
\* One entry of a QuantumCircuit's instruction list.
Instr(op, name, q, c, matrix, body) ==
    [op |-> op, name |-> name, q |-> q, c |-> c, matrix |-> matrix, body |-> body]

HGate(q) == Instr("h", "h", q, -1, <<>>, <<>>)
Unitary(M) == Instr("unitary", "unitary", -1, -1, M, <<>>)
SubCircuit(name, body) == Instr("circuit", name, -1, -1, <<>>, body)
MeasureGate(q, c) == Instr("measure", "measure", q, c, <<>>, <<>>)

\* mutant: the range starts at qubit 1, qubit 0 gets no Hadamard
h_range_skipsFirst(nq) == [k \in 1..(nq - 1) |-> HGate(k)]

\* qc.h(range(n)): one Hadamard per qubit, in qubit order
h_range(nq) == [k \in 1..nq |-> HGate(k - 1)]

\* mutant: the classical slots are assigned in reverse order
measure_range_reversed(nq) == [k \in 1..nq |-> MeasureGate(k - 1, nq - k)]

\* qc.measure(range(n), range(n)): qubit i into classical slot i
measure_range(nq) == [k \in 1..nq |-> MeasureGate(k - 1, k - 1)]

\* ---------------------------------------------------------- phase_oracle
\* mutant: a matrix of ones instead of the identity
identity_ones(N) == [i \in 0..(N - 1) |-> [j \in 0..(N - 1) |-> 1]]

\* np.identity(2**n)
identity(N) == [i \in 0..(N - 1) |-> [j \in 0..(N - 1) |-> IF i = j THEN 1 ELSE 0]]

\* mutant: negative indices are rejected
IndexOk_nonNegative(index, N) == 0 <= index /\ index < N

\* numpy accepts an index of an axis of length N iff -N <= index < N
IndexOk(index, N) == -N <= index /\ index < N

\* numpy counts a negative index from the end of the axis
Position(index, N) == IF index < 0 THEN index + N ELSE index

\* mutant: the loop stops after the first index
MarkLoop_firstOnly(oracle_matrix, indices_to_mark, N) ==
    IF indices_to_mark = <<>> THEN oracle_matrix
    ELSE LET i == Position(Head(indices_to_mark), N)
         IN [oracle_matrix EXCEPT ![i][i] = -1]

RECURSIVE MarkLoop_toggle(_, _, _)
\* mutant: the entry is multiplied by -1 instead of being set to -1
MarkLoop_toggle(oracle_matrix, indices_to_mark, N) ==
    IF indices_to_mark = <<>> THEN oracle_matrix
    ELSE LET i == Position(Head(indices_to_mark), N)
         IN MarkLoop_toggle([oracle_matrix EXCEPT ![i][i] = -oracle_matrix[i][i]],
                            Tail(indices_to_mark), N)

RECURSIVE MarkLoop_cleared(_, _, _)
\* mutant: the marked entry is set to 0 instead of -1
MarkLoop_cleared(oracle_matrix, indices_to_mark, N) ==
    IF indices_to_mark = <<>> THEN oracle_matrix
    ELSE LET i == Position(Head(indices_to_mark), N)
         IN MarkLoop_cleared([oracle_matrix EXCEPT ![i][i] = 0],
                             Tail(indices_to_mark), N)

RECURSIVE MarkLoop(_, _, _)
\* for index_to_mark in indices_to_mark: oracle_matrix[index, index] = -1
MarkLoop(oracle_matrix, indices_to_mark, N) ==
    IF indices_to_mark = <<>> THEN oracle_matrix
    ELSE LET i == Position(Head(indices_to_mark), N)
         IN MarkLoop([oracle_matrix EXCEPT ![i][i] = -1], Tail(indices_to_mark), N)

\* the matrix phase_oracle hands to Operator(...), for in-range indices
oracle_matrix(nq, indices_to_mark) ==
    MarkLoop(identity(Dim(nq)), indices_to_mark, Dim(nq))

\* mutant: one matrix is shared by all calls, so after the first round it still
\* carries the mark the diffuser's call left on index 0
phase_oracle_sharedMatrix(nq, indices_to_mark) ==
    IF \E k \in 1..Len(indices_to_mark) : ~IndexOk(indices_to_mark[k], Dim(nq))
    THEN [err |-> "IndexError", qc |-> <<>>]
    ELSE [err |-> "",
          qc |-> <<Unitary(oracle_matrix(nq, IF round > 0
                                             THEN indices_to_mark \o <<0>>
                                             ELSE indices_to_mark))>>]

\* phase_oracle(n, indices_to_mark): the returned circuit, or the exception
phase_oracle(nq, indices_to_mark) ==
    IF \E k \in 1..Len(indices_to_mark) : ~IndexOk(indices_to_mark[k], Dim(nq))
    THEN [err |-> "IndexError", qc |-> <<>>]
    ELSE [err |-> "", qc |-> <<Unitary(oracle_matrix(nq, indices_to_mark))>>]

\* -------------------------------------------------------------- diffuser
\* mutant: the oracle of the diffuser marks the last index instead of index 0
diffuser_marksLast(nq) ==
    h_range(nq) \o <<SubCircuit("Oracle", phase_oracle(nq, <<-1>>).qc)>> \o h_range(nq)

\* mutant: the second layer of Hadamards is missing
diffuser_noSecondH(nq) ==
    h_range(nq) \o <<SubCircuit("Oracle", phase_oracle(nq, <<0>>).qc)>>

\* diffuser(n): h on all qubits, phase_oracle(n, [0]) appended, h on all qubits
diffuser(nq) ==
    h_range(nq) \o <<SubCircuit("Oracle", phase_oracle(nq, <<0>>).qc)>> \o h_range(nq)

\* ------------------------------------------------------------ simulation
\* a Hadamard on qubit q: (x, y) -> (x + y, x - y) / sqrt(2) on each index pair
ApplyH(st, q) ==
    Vec([i \in DOMAIN st.amp |->
            IF Bit(i, q) = 0 THEN st.amp[i] + st.amp[i + Pow2(q)]
                             ELSE st.amp[i - Pow2(q)] - st.amp[i]],
        st.sc + 1)

\* matrix times vector
ApplyMatrix(M, st) ==
    LET N == Cardinality(DOMAIN st.amp)
    IN Vec([i \in DOMAIN st.amp |->
               SumTo([j \in 0..(N - 1) |-> M[i][j] * st.amp[j]], N - 1)],
           st.sc)

RECURSIVE ApplyCircuit(_, _)
\* the unitary part of a circuit, instruction by instruction; a measurement is
\* left to the run that samples it
ApplyCircuit(body, st) ==
    IF body = <<>> THEN st
    ELSE LET g == Head(body)
             next == CASE g.op = "h" -> ApplyH(st, g.q)
                       [] g.op = "unitary" -> ApplyMatrix(g.matrix, st)
                       [] g.op = "circuit" -> ApplyCircuit(g.body, st)
                       [] OTHER -> st
         IN ApplyCircuit(Tail(body), next)

\* the amplitude vector a circuit produces from st
Evolve(body, st) == Normalise(ApplyCircuit(body, st))

\* statevector of a circuit run from |0...0>, before any measurement
Statevector(body, nq) == Evolve(body, ZeroState(nq))

\* indices a measurement of all qubits can return: non-zero probability
Support(st) == {i \in DOMAIN st.amp : st.amp[i] # 0}

\* the register after the measurement returned basis state o
Collapse(st, o) ==
    Vec([i \in DOMAIN st.amp |->
            IF i = o THEN (IF st.amp[o] < 0 THEN -1 ELSE 1) ELSE 0], 0)

RECURSIVE ReadOut(_, _)
\* value of the classical register after the measure instructions of body
\* read basis state o
ReadOut(body, o) ==
    IF body = <<>> THEN 0
    ELSE LET g == Head(body)
         IN (IF g.op = "measure" THEN Bit(o, g.q) * Pow2(g.c) ELSE 0)
            + ReadOut(Tail(body), o)

\* ------------------------------------------------------------ round count
\* np.pi as a fixed-point fraction, and the fixed-point scale of the floats
PiNum == 31415
PiDen == 10000
Scale == 1000

\* mutant: the product is rounded up instead of down
AutoRounds_ceil(nq, k) ==
    LET quotient == (Dim(nq) * Scale * Scale) \div k
        root == isqrt(quotient)
    IN ((PiNum * root) \div (4 * PiDen * Scale)) + 1

\* int(np.floor(np.pi/4*np.sqrt(2**n/k))), evaluated in fixed point
AutoRounds(nq, k) ==
    LET quotient == (Dim(nq) * Scale * Scale) \div k
        root == isqrt(quotient)
    IN (PiNum * root) \div (4 * PiDen * Scale)

\* ---------------------------------------------------------------- inputs
\* index values a caller may pass: every valid index, the negative indices
\* numpy still accepts (-1, -2^n), and the nearest rejected ones
IndexInputs(nq) == (0..Dim(nq)) \cup {-1, -Dim(nq), -Dim(nq) - 1}

\* [0, 1, ..., 2^n - 1]: every basis state marked
FullList(nq) == [k \in 1..Dim(nq) |-> k - 1]

MarkedInputs(nq) ==
    UNION {[1..len -> IndexInputs(nq)] : len \in 0..MaxLen} \cup {FullList(nq)}

\* integer amplitude vectors with few non-zero entries
VecInputs(nq) ==
    LET I == 0..(Dim(nq) - 1)
        A == (-MaxAmp..MaxAmp) \ {0}
    IN UNION {{Vec([i \in I |-> IF i \in S THEN f[i] ELSE 0], 0) : f \in [S -> A]} :
                  S \in {T \in SUBSET I : Cardinality(T) <= MaxSupport}}

\* probes for a diagonal transform: the basis states, and one vector whose
\* amplitudes are all different and non-zero
ProbeInputs(nq) ==
    LET I == 0..(Dim(nq) - 1)
    IN {Vec([i \in I |-> IF i = b THEN 1 ELSE 0], 0) : b \in I}
       \cup {Vec([i \in I |-> i + 1], 0)}

\* ------------------------------------------------------------------ Init
Init ==
    /\ fn \in {"Grover", "phase_oracle", "diffuser", "Grover_Step_I"}
    /\ n \in 1..MaxN
    /\ indices_of_marked_elements \in
           (IF fn = "diffuser" THEN {<<>>} ELSE MarkedInputs(n))
    /\ r_supplied \in (IF fn \in {"Grover", "Grover_Step_I"} THEN BOOLEAN ELSE {FALSE})
    /\ r_arg \in (IF r_supplied THEN -1..MaxR ELSE {0})
    /\ r = r_arg
    /\ round = 0
    /\ pc = "start"
    /\ err = ""
    /\ qc = <<>>
    /\ psi0 \in (CASE fn \in {"Grover", "Grover_Step_I"} -> {ZeroState(n)}
                   [] fn = "phase_oracle" -> ProbeInputs(n)
                   [] fn = "diffuser" -> VecInputs(n))
    /\ psi = psi0
    /\ applied = 0
    /\ counts = -1
    /\ circuit = [err |-> "", qc |-> <<>>, r |-> 0]

\* --------------------------------------------------------------- Grover
\* mutant: an empty list is counted as one marked element, nothing is raised
GroverDetermineR_guarded ==
    /\ fn = "Grover" /\ pc = "start"
    /\ IF r = 0
       THEN r' = (IF Len(indices_of_marked_elements) = 0
                  THEN AutoRounds(n, 1)
                  ELSE AutoRounds(n, Len(indices_of_marked_elements)))
       ELSE r' = r
    /\ pc' = "h"
    /\ UNCHANGED <<circuit, fn, n, indices_of_marked_elements, r_supplied, r_arg,
                   round, err, qc, psi0, psi, applied, counts>>

\* mutant: the test is r <= 0, a negative r is replaced by the computed count
GroverDetermineR_nonPositive ==
    /\ fn = "Grover" /\ pc = "start"
    /\ IF r <= 0
       THEN IF Len(indices_of_marked_elements) = 0
            THEN /\ err' = "ZeroDivisionError"
                 /\ pc' = "raised"
                 /\ r' = r
            ELSE /\ r' = AutoRounds(n, Len(indices_of_marked_elements))
                 /\ pc' = "h"
                 /\ err' = err
       ELSE /\ pc' = "h"
            /\ UNCHANGED <<r, err>>
    /\ UNCHANGED <<circuit, fn, n, indices_of_marked_elements, r_supplied, r_arg,
                   round, qc, psi0, psi, applied, counts>>

\* if r == 0: r = int(np.floor(np.pi/4*np.sqrt(2**n/len(marked))))
GroverDetermineR ==
    /\ fn = "Grover" /\ pc = "start"
    /\ IF r = 0
       THEN IF Len(indices_of_marked_elements) = 0
            THEN /\ err' = "ZeroDivisionError"
                 /\ pc' = "raised"
                 /\ r' = r
            ELSE /\ r' = AutoRounds(n, Len(indices_of_marked_elements))
                 /\ pc' = "h"
                 /\ err' = err
       ELSE /\ pc' = "h"
            /\ UNCHANGED <<r, err>>
    /\ UNCHANGED <<circuit, fn, n, indices_of_marked_elements, r_supplied, r_arg, round,
                   qc, psi0, psi, applied, counts>>

\* step 1: qc.h(range(n))
GroverH ==
    /\ fn = "Grover" /\ pc = "h"
    /\ qc' = qc \o h_range(n)
    /\ pc' = "loop"
    /\ UNCHANGED <<circuit, fn, n, indices_of_marked_elements, r_supplied, r_arg, r, round,
                   err, psi0, psi, applied, counts>>

\* mutant: the loop runs over range(r + 1)
GroverOracle_extraRound ==
    /\ fn = "Grover" /\ pc = "loop" /\ round <= r
    /\ LET res == phase_oracle(n, indices_of_marked_elements)
       IN IF res.err # ""
          THEN /\ err' = res.err
               /\ pc' = "raised"
               /\ qc' = qc
          ELSE /\ qc' = Append(qc, SubCircuit("Oracle", res.qc))
               /\ pc' = "diffuse"
               /\ err' = err
    /\ UNCHANGED <<circuit, fn, n, indices_of_marked_elements, r_supplied, r_arg, r,
                   round, psi0, psi, applied, counts>>

\* step 2, first half: qc.append(phase_oracle(n, marked), range(n))
GroverOracle ==
    /\ fn = "Grover" /\ pc = "loop" /\ round < r
    /\ LET res == phase_oracle(n, indices_of_marked_elements)
       IN IF res.err # ""
          THEN /\ err' = res.err
               /\ pc' = "raised"
               /\ qc' = qc
          ELSE /\ qc' = Append(qc, SubCircuit("Oracle", res.qc))
               /\ pc' = "diffuse"
               /\ err' = err
    /\ UNCHANGED <<circuit, fn, n, indices_of_marked_elements, r_supplied, r_arg, r, round,
                   psi0, psi, applied, counts>>

\* mutant: the round appends no diffuser
GroverDiffuser_omitted ==
    /\ fn = "Grover" /\ pc = "diffuse"
    /\ round' = round + 1
    /\ pc' = "loop"
    /\ UNCHANGED <<circuit, fn, n, indices_of_marked_elements, r_supplied, r_arg, r, err,
                   qc, psi0, psi, applied, counts>>

\* step 2, second half: qc.append(diffuser(n), range(n)); next iteration
GroverDiffuser ==
    /\ fn = "Grover" /\ pc = "diffuse"
    /\ qc' = Append(qc, SubCircuit("Diffuser", diffuser(n)))
    /\ round' = round + 1
    /\ pc' = "loop"
    /\ UNCHANGED <<circuit, fn, n, indices_of_marked_elements, r_supplied, r_arg, r, err,
                   psi0, psi, applied, counts>>

\* step 3: qc.measure(range(n), range(n)); return qc
GroverMeasure ==
    /\ fn = "Grover" /\ pc = "loop" /\ round >= r
    /\ qc' = qc \o measure_range(n)
    /\ pc' = "done"
    /\ UNCHANGED <<circuit, fn, n, indices_of_marked_elements, r_supplied, r_arg, r, round,
                   err, psi0, psi, applied, counts>>

\* one shot of the returned circuit on a simulator: the register is measured
\* and collapses onto the basis state read
Execute ==
    /\ fn = "Grover" /\ pc = "done" /\ counts = -1
    /\ LET before == Statevector(qc, n)
       IN \E o \in Support(before) :
              /\ psi' = Collapse(before, o)
              /\ counts' = ReadOut(qc, o)
    /\ UNCHANGED <<circuit, fn, n, indices_of_marked_elements, r_supplied, r_arg, r, round,
                   pc, err, qc, psi0, applied>>

\* ------------------------------------------- the builders called directly
\* qc = phase_oracle(n, indices_of_marked_elements)
CallPhaseOracle ==
    /\ fn = "phase_oracle" /\ pc = "start"
    /\ LET res == phase_oracle(n, indices_of_marked_elements)
       IN /\ qc' = res.qc
          /\ err' = res.err
          /\ pc' = IF res.err = "" THEN "done" ELSE "raised"
    /\ UNCHANGED <<circuit, fn, n, indices_of_marked_elements, r_supplied, r_arg, r, round,
                   psi0, psi, applied, counts>>

\* diffuser_circuit = diffuser(n)
CallDiffuser ==
    /\ fn = "diffuser" /\ pc = "start"
    /\ qc' = diffuser(n)
    /\ pc' = "done"
    /\ UNCHANGED <<circuit, fn, n, indices_of_marked_elements, r_supplied, r_arg, r, round,
                   err, psi0, psi, applied, counts>>

\* the returned transform applied to the current amplitude vector
ApplyTransform ==
    /\ fn \in {"phase_oracle", "diffuser"} /\ pc = "done"
    /\ applied < MaxApply
    /\ psi' = Evolve(qc, psi)
    /\ applied' = applied + 1
    /\ UNCHANGED <<circuit, fn, n, indices_of_marked_elements, r_supplied, r_arg, r, round,
                   pc, err, qc, psi0, counts>>

\* ------------------------------------------------------- Grover_Step_I
\* if r == 0: r = int(np.floor(...)), in the function f
DetermineR(f) ==
    /\ fn = f /\ pc = "start"
    /\ IF r = 0
       THEN IF Len(indices_of_marked_elements) = 0
            THEN /\ err' = "ZeroDivisionError"
                 /\ pc' = "raised"
                 /\ r' = r
            ELSE /\ r' = AutoRounds(n, Len(indices_of_marked_elements))
                 /\ pc' = "h"
                 /\ err' = err
       ELSE /\ pc' = "h"
            /\ UNCHANGED <<r, err>>
    /\ UNCHANGED <<circuit, fn, n, indices_of_marked_elements, r_supplied, r_arg,
                   round, qc, psi0, psi, applied, counts>>

\* step 1: qc.h(range(n)), in the function f
HStep(f) ==
    /\ fn = f /\ pc = "h"
    /\ qc' = qc \o h_range(n)
    /\ pc' = "loop"
    /\ UNCHANGED <<circuit, fn, n, indices_of_marked_elements, r_supplied, r_arg, r,
                   round, err, psi0, psi, applied, counts>>

\* return qc once the loop is over; the measurement is commented out
ReturnStep(f) ==
    /\ fn = f /\ pc = "loop" /\ round >= r
    /\ pc' = "done"
    /\ UNCHANGED <<circuit, fn, n, indices_of_marked_elements, r_supplied, r_arg, r,
                   round, err, qc, psi0, psi, applied, counts>>

StepIDetermineR == DetermineR("Grover_Step_I")

StepIH == HStep("Grover_Step_I")

\* mutant: the diffuser is still appended after the oracle
StepIOracle_withDiffuser ==
    /\ fn = "Grover_Step_I" /\ pc = "loop" /\ round < r
    /\ LET res == phase_oracle(n, indices_of_marked_elements)
       IN IF res.err # ""
          THEN /\ err' = res.err
               /\ pc' = "raised"
               /\ UNCHANGED <<qc, round>>
          ELSE /\ qc' = qc \o <<SubCircuit("Oracle", res.qc),
                                SubCircuit("Diffuser", diffuser(n))>>
               /\ round' = round + 1
               /\ UNCHANGED <<pc, err>>
    /\ UNCHANGED <<circuit, fn, n, indices_of_marked_elements, r_supplied, r_arg, r,
                   psi0, psi, applied, counts>>

\* one iteration: the oracle is appended, the diffuser is commented out
StepIOracle ==
    /\ fn = "Grover_Step_I" /\ pc = "loop" /\ round < r
    /\ LET res == phase_oracle(n, indices_of_marked_elements)
       IN IF res.err # ""
          THEN /\ err' = res.err
               /\ pc' = "raised"
               /\ UNCHANGED <<qc, round>>
          ELSE /\ qc' = Append(qc, SubCircuit("Oracle", res.qc))
               /\ round' = round + 1
               /\ UNCHANGED <<pc, err>>
    /\ UNCHANGED <<circuit, fn, n, indices_of_marked_elements, r_supplied, r_arg, r,
                   psi0, psi, applied, counts>>

StepIReturn == ReturnStep("Grover_Step_I")

\* ------------------------------------------------------ Grover_Step_II
\* qc = Grover_Step_II(n, indices_of_marked_elements, r) in a later cell, with
\* the arguments the earlier cell gave Grover; circuit keeps what Grover did
CallStepII ==
    /\ fn = "Grover" /\ pc \in {"done", "raised"} /\ counts = -1
    /\ circuit' = [err |-> err, qc |-> qc, r |-> r]
    /\ fn' = "Grover_Step_II"
    /\ r' = r_arg
    /\ round' = 0
    /\ pc' = "start"
    /\ err' = ""
    /\ qc' = <<>>
    /\ UNCHANGED <<n, indices_of_marked_elements, r_supplied, r_arg, psi0, psi,
                   applied, counts>>

StepIIDetermineR == DetermineR("Grover_Step_II")

StepIIH == HStep("Grover_Step_II")

\* first half of an iteration: the oracle
StepIIOracle ==
    /\ fn = "Grover_Step_II" /\ pc = "loop" /\ round < r
    /\ LET res == phase_oracle(n, indices_of_marked_elements)
       IN IF res.err # ""
          THEN /\ err' = res.err
               /\ pc' = "raised"
               /\ qc' = qc
          ELSE /\ qc' = Append(qc, SubCircuit("Oracle", res.qc))
               /\ pc' = "diffuse"
               /\ err' = err
    /\ UNCHANGED <<circuit, fn, n, indices_of_marked_elements, r_supplied, r_arg, r,
                   round, psi0, psi, applied, counts>>

\* mutant: the diffuser is commented out, as in Grover_Step_I
StepIIDiffuser_omitted ==
    /\ fn = "Grover_Step_II" /\ pc = "diffuse"
    /\ round' = round + 1
    /\ pc' = "loop"
    /\ UNCHANGED <<circuit, fn, n, indices_of_marked_elements, r_supplied, r_arg, r,
                   err, qc, psi0, psi, applied, counts>>

\* second half of an iteration: the diffuser
StepIIDiffuser ==
    /\ fn = "Grover_Step_II" /\ pc = "diffuse"
    /\ qc' = Append(qc, SubCircuit("Diffuser", diffuser(n)))
    /\ round' = round + 1
    /\ pc' = "loop"
    /\ UNCHANGED <<circuit, fn, n, indices_of_marked_elements, r_supplied, r_arg, r,
                   err, psi0, psi, applied, counts>>

StepIIReturn == ReturnStep("Grover_Step_II")

\* final_state = statevector_simulator.run(...).get_statevector() for the
\* circuit a step function returned
RunStatevector ==
    /\ fn \in {"Grover_Step_I", "Grover_Step_II"} /\ pc = "done" /\ applied = 0
    /\ psi' = Statevector(qc, n)
    /\ applied' = 1
    /\ UNCHANGED <<circuit, fn, n, indices_of_marked_elements, r_supplied, r_arg, r,
                   round, pc, err, qc, psi0, counts>>

Next ==
    \/ GroverDetermineR
    \/ GroverH
    \/ GroverOracle
    \/ GroverDiffuser
    \/ GroverMeasure
    \/ Execute
    \/ CallPhaseOracle
    \/ CallDiffuser
    \/ ApplyTransform
    \/ StepIDetermineR
    \/ StepIH
    \/ StepIOracle
    \/ StepIReturn
    \/ CallStepII
    \/ StepIIDetermineR
    \/ StepIIH
    \/ StepIIOracle
    \/ StepIIDiffuser
    \/ StepIIReturn
    \/ RunStatevector

Spec == Init /\ [][Next]_vars

\* Grover is straight-line Python: once called, it runs until it returns or raises
GroverRuns ==
    GroverDetermineR \/ GroverH \/ GroverOracle \/ GroverDiffuser \/ GroverMeasure

FairSpec == Spec /\ WF_vars(GroverRuns)

\* ------------------------------------------------- vocabulary of the claims
N == Dim(n)

\* every index of the list lies in [0, 2^n)
InRange(L, nq) == \A k \in 1..Len(L) : 0 <= L[k] /\ L[k] < Dim(nq)

\* the indices a list names
MarkedSet(L) == {L[k] : k \in 1..Len(L)}

\* M is the identity of size 2^n with the diagonal negated exactly on S
IsMarkedIdentity(M, nq, S) ==
    /\ DOMAIN M = 0..(Dim(nq) - 1)
    /\ \A i \in 0..(Dim(nq) - 1) :
           /\ DOMAIN M[i] = 0..(Dim(nq) - 1)
           /\ \A j \in 0..(Dim(nq) - 1) :
                  M[i][j] = (IF i # j THEN 0 ELSE IF i \in S THEN -1 ELSE 1)

\* body is h on qubits 0..n-1 in order
IsHLayer(body, nq) ==
    /\ Len(body) = nq
    /\ \A k \in 1..nq : body[k].op = "h" /\ body[k].q = k - 1

\* body is the measurement of qubit i into classical slot i, for i = 0..n-1
IsMeasureLayer(body, nq) ==
    /\ Len(body) = nq
    /\ \A k \in 1..nq : body[k].op = "measure" /\ body[k].q = k - 1 /\ body[k].c = k - 1

\* g is an appended oracle circuit: one unitary, the identity negated on S
IsOracleOn(g, nq, S) ==
    /\ g.op = "circuit"
    /\ Len(g.body) = 1
    /\ g.body[1].op = "unitary"
    /\ IsMarkedIdentity(g.body[1].matrix, nq, S)

\* body is: h on all qubits, the oracle marking only index 0, h on all qubits
IsDiffuserBody(body, nq) ==
    /\ Len(body) = 2 * nq + 1
    /\ IsHLayer(SubSeq(body, 1, nq), nq)
    /\ IsOracleOn(body[nq + 1], nq, {0})
    /\ IsHLayer(SubSeq(body, nq + 2, 2 * nq + 1), nq)

IsDiffuser(g, nq) == g.op = "circuit" /\ IsDiffuserBody(g.body, nq)

\* number of top-level instructions of the circuit that satisfy P
Count(P(_)) == Cardinality({k \in 1..Len(qc) : P(qc[k])})

IsOracleInstr(g) == g.op = "circuit" /\ g.name = "Oracle"
IsDiffuserInstr(g) == g.op = "circuit" /\ g.name = "Diffuser"

\* the rounds the loop of Grover runs for a value of r
Rounds(rr) == IF rr < 0 THEN 0 ELSE rr

\* the vector with amplitude num[i] / 2^e at index i
Over(num, e) == Normalise(Vec(num, 2 * e))

Total(a) == SumTo(a, Cardinality(DOMAIN a) - 1)

\* ------------------------------------------------------------------ C1
\* C1: for marked indices all in [0, 2^n), phase_oracle builds the 2^n x 2^n
\* identity with entry (i,i) = -1 exactly for the marked i (other diagonal
\* entries +1, off-diagonal entries 0); applied once, it negates the amplitude
\* of each marked basis state and leaves every other amplitude unchanged.
C1_OracleIsMarkedIdentity ==
    (fn = "phase_oracle" /\ pc = "done" /\ InRange(indices_of_marked_elements, n))
    => /\ Len(qc) = 1
       /\ qc[1].op = "unitary"
       /\ IsMarkedIdentity(qc[1].matrix, n, MarkedSet(indices_of_marked_elements))
       /\ applied = 1 =>
            /\ psi.sc = psi0.sc
            /\ \A i \in 0..(N - 1) :
                  psi.amp[i] = (IF i \in MarkedSet(indices_of_marked_elements)
                                THEN -psi0.amp[i] ELSE psi0.amp[i])

C1_Witness ==
    /\ fn = "phase_oracle" /\ pc = "done" /\ applied = 1
    /\ n = 2
    /\ indices_of_marked_elements = <<1, 3>>
    /\ psi0.amp = [i \in 0..3 |-> i + 1]
    /\ psi.amp = (0 :> 1 @@ 1 :> -2 @@ 2 :> 3 @@ 3 :> -4)

\* ------------------------------------------------------------------ C2
\* C2: the circuit diffuser(n) returns is, in application order, h on all n
\* qubits, the oracle marking only index 0, h on all n qubits; every diffuser
\* Grover appends is that same circuit, whatever marked list Grover was given.
C2_DiffuserIsHOracleZeroH ==
    /\ (fn = "diffuser" /\ pc = "done") => IsDiffuserBody(qc, n)
    /\ fn = "Grover" =>
          \A k \in 1..Len(qc) : IsDiffuserInstr(qc[k]) => IsDiffuserBody(qc[k].body, n)

C2_Witness ==
    /\ fn = "Grover" /\ pc = "done" /\ n = 2
    /\ indices_of_marked_elements = <<3, 2>>
    /\ Count(IsDiffuserInstr) = 2

\* ------------------------------------------------------------------ C3
\* C3: for a non-empty list of in-range marked indices, the circuit Grover
\* returns is h on all n qubits, then Rounds(r) times (the oracle of the
\* caller's marked indices, then the diffuser), then the measurement of qubit
\* i into classical slot i as the last n instructions, and nothing else.
C3_GroverCircuitShape ==
    (/\ fn = "Grover" /\ pc = "done"
     /\ indices_of_marked_elements # <<>>
     /\ InRange(indices_of_marked_elements, n))
    => /\ Len(qc) = 2 * n + 2 * Rounds(r)
       /\ IsHLayer(SubSeq(qc, 1, n), n)
       /\ \A k \in 1..Rounds(r) :
              /\ IsOracleOn(qc[n + 2 * k - 1], n, MarkedSet(indices_of_marked_elements))
              /\ IsDiffuser(qc[n + 2 * k], n)
       /\ IsMeasureLayer(SubSeq(qc, n + 2 * Rounds(r) + 1, Len(qc)), n)

C3_Witness ==
    /\ fn = "Grover" /\ pc = "done" /\ n = 2 /\ r = 2
    /\ indices_of_marked_elements = <<2>>
    /\ Len(qc) = 8
    /\ counts # -1

\* ------------------------------------------------------------------ C4
\* rr = floor((pi/4) * sqrt(2^n / k)), i.e. rr <= (pi/4) sqrt(2^n / k) < rr + 1,
\* squared and with 9.8696 < pi^2 < 9.8697
IsFloorOfOptimum(rr, nq, k) ==
    /\ rr >= 0
    /\ 16 * rr * rr * k * 10000 <= 98696 * Dim(nq)
    /\ 98697 * Dim(nq) <= 16 * (rr + 1) * (rr + 1) * k * 10000

\* C4: when no round count is supplied, Grover uses
\* r = floor((pi/4) * sqrt(2^n / k)) rounds, k being the number of marked
\* elements (stated for non-empty lists of in-range indices).
C4_AutoRoundsByMarkedElements ==
    (/\ fn = "Grover" /\ ~r_supplied /\ pc \notin {"start", "raised"}
     /\ indices_of_marked_elements # <<>>
     /\ InRange(indices_of_marked_elements, n))
    => IsFloorOfOptimum(r, n, Cardinality(MarkedSet(indices_of_marked_elements)))

\* ------------------------------------------------------------------ C5
\* the basis state m with amplitude -1
MinusBasis(nq, m) == Vec([i \in 0..(Dim(nq) - 1) |-> IF i = m THEN -1 ELSE 0], 0)

\* C5: for n = 2, one marked index m in [0, 4) and one round, the circuit
\* Grover returns takes |00> to amplitude -1 at m and 0 elsewhere, and every
\* shot reads m.
C5_TwoQubitsOneRoundFindsMarked ==
    (/\ fn = "Grover" /\ pc = "done" /\ n = 2 /\ r = 1
     /\ Len(indices_of_marked_elements) = 1
     /\ InRange(indices_of_marked_elements, n))
    => /\ Statevector(qc, n) = MinusBasis(n, indices_of_marked_elements[1])
       /\ counts # -1 =>
            /\ counts = indices_of_marked_elements[1]
            /\ psi = MinusBasis(n, indices_of_marked_elements[1])

C5_Witness ==
    /\ fn = "Grover" /\ pc = "done" /\ n = 2 /\ r = 1
    /\ indices_of_marked_elements = <<1>>
    /\ counts = 1
    /\ psi.amp = (0 :> 0 @@ 1 :> -1 @@ 2 :> 0 @@ 3 :> 0)

\* ------------------------------------------------------------------ C6
\* 2 * mean(a) - a[i] at every index i, for a vector a of scale 0
ReflectedAboutMean(a, nq) ==
    Over([i \in DOMAIN a |-> 2 * Total(a) - Dim(nq) * a[i]], nq)

\* a[i] - 2 * mean(a) at every index i, for a vector a of scale 0
MinusReflectedAboutMean(a, nq) ==
    Over([i \in DOMAIN a |-> Dim(nq) * a[i] - 2 * Total(a)], nq)

C7_ExplicitZeroMeansNoRounds ==
    (fn = "Grover" /\ pc = "done" /\ r_supplied /\ r_arg = 0)
    => /\ Count(IsOracleInstr) = 0
       /\ Count(IsDiffuserInstr) = 0
       /\ Len(qc) = 2 * n

\* ------------------------------------------------------------------ C8
\* entry (i, j) of M times its transpose (M is real: the conjugate transpose)
GramEntry(M, i, j, nq) ==
    SumTo([k \in 0..(Dim(nq) - 1) |-> M[i][k] * M[j][k]], Dim(nq) - 1)

\* C8: for a marked list naming k different in-range indices, 1 <= k <= 2^n,
\* the oracle matrix is diagonal, its product with its conjugate transpose is
\* the identity, exactly k diagonal entries are -1 and the other 2^n - k are +1.
C8_OracleDiagonalUnitary ==
    (/\ fn = "phase_oracle" /\ pc = "done"
     /\ indices_of_marked_elements # <<>>
     /\ InRange(indices_of_marked_elements, n))
    => LET M == qc[1].matrix
           I == 0..(N - 1)
           k == Cardinality(MarkedSet(indices_of_marked_elements))
       IN /\ \A i, j \in I : i # j => M[i][j] = 0
          /\ \A i, j \in I : GramEntry(M, i, j, n) = (IF i = j THEN 1 ELSE 0)
          /\ Cardinality({i \in I : M[i][i] = -1}) = k
          /\ Cardinality({i \in I : M[i][i] = 1}) = N - k

C8_Witness ==
    /\ fn = "phase_oracle" /\ pc = "done" /\ n = 2
    /\ indices_of_marked_elements = <<0, 1, 2, 3>>
    /\ \A i \in 0..3 : qc[1].matrix[i][i] = -1

\* ------------------------------------------------------------------ C9
\* C9: the transform diffuser(n) builds, applied twice in succession, returns
\* every amplitude vector unchanged.
C9_DiffuserTwiceIsIdentity ==
    (fn = "diffuser" /\ pc = "done" /\ applied = 2) => psi = Normalise(psi0)

C9_Witness ==
    /\ fn = "diffuser" /\ pc = "done" /\ applied = 2 /\ n = 2
    /\ psi0.amp = (0 :> 1 @@ 1 :> 0 @@ 2 :> 0 @@ 3 :> 0)
    /\ psi = psi0

\* ----------------------------------------------------------------- C10
\* the list names every index of [0, 2^n) exactly once
MarksAll(L, nq) == Len(L) = Dim(nq) /\ MarkedSet(L) = 0..(Dim(nq) - 1)

\* C10: when all 2^n indices are marked and no round count is supplied, the
\* computed round count is 0 and the circuit Grover returns holds no oracle and
\* no diffuser: only the Hadamard step and the measurement.
C10_AllMarkedGivesZeroRounds ==
    (fn = "Grover" /\ ~r_supplied /\ MarksAll(indices_of_marked_elements, n))
    => /\ pc # "start" => r = 0
       /\ pc = "done" =>
            /\ Len(qc) = 2 * n
            /\ IsHLayer(SubSeq(qc, 1, n), n)
            /\ IsMeasureLayer(SubSeq(qc, n + 1, 2 * n), n)

C10_Witness ==
    /\ fn = "Grover" /\ ~r_supplied /\ pc = "done" /\ n = 2
    /\ indices_of_marked_elements = <<0, 1, 2, 3>>
    /\ r = 0
    /\ counts = 2

\* ----------------------------------------------------------------- C11
\* C11 as stated: for every n and every value of r, supplied or not, Grover
\* called with an empty marked list never returns a circuit.
C11_EmptyListNeverReturns ==
    (fn = "Grover" /\ indices_of_marked_elements = <<>>) => pc # "done"

\* C11 amended: Grover called with an empty marked list fails with the division
\* by zero of the round-count computation, and returns no circuit, exactly when
\* r is not supplied or is 0; with any other r nothing is raised.
C11_EmptyListFailsWhenRIsZero ==
    (fn = "Grover" /\ indices_of_marked_elements = <<>>)
    => /\ r_arg = 0 =>
            /\ pc \in {"start", "raised"}
            /\ pc = "raised" => (err = "ZeroDivisionError" /\ qc = <<>>)
       /\ r_arg # 0 => (pc # "raised" /\ err = "")

C11_Witness ==
    /\ fn = "Grover" /\ indices_of_marked_elements = <<>> /\ n = 2
    /\ ~r_supplied
    /\ pc = "raised" /\ err = "ZeroDivisionError"

\* ----------------------------------------------------------------- C12
\* C12 as stated: if the marked list holds any index outside [0, 2^n),
\* phase_oracle fails with an error and returns no transform.
C12_OutOfRangeAlwaysFails ==
    (/\ fn = "phase_oracle" /\ pc # "start"
     /\ ~InRange(indices_of_marked_elements, n))
    => (pc = "raised" /\ err # "" /\ qc = <<>>)

\* the list holds an index >= 2^n or < -2^n
HasIndexBeyond(L, nq) == \E k \in 1..Len(L) : L[k] >= Dim(nq) \/ L[k] < -Dim(nq)

\* the basis states a list of indices in [-2^n, 2^n) marks: a negative index i
\* marks 2^n + i
MarkedFromEnd(L, nq) ==
    {(IF L[k] < 0 THEN Dim(nq) + L[k] ELSE L[k]) : k \in 1..Len(L)}

\* C12 amended: if the marked list holds an index >= 2^n or < -2^n,
\* phase_oracle fails with IndexError and returns no transform; otherwise it
\* raises nothing, and a negative index i >= -2^n marks basis state 2^n + i.
C12_OnlyBeyondBothEndsFails ==
    (fn = "phase_oracle" /\ pc # "start")
    => IF HasIndexBeyond(indices_of_marked_elements, n)
       THEN pc = "raised" /\ err = "IndexError" /\ qc = <<>>
       ELSE /\ pc = "done" /\ err = ""
            /\ Len(qc) = 1
            /\ IsMarkedIdentity(qc[1].matrix, n,
                                MarkedFromEnd(indices_of_marked_elements, n))

C12_Witness ==
    /\ fn = "phase_oracle" /\ n = 2 /\ pc = "raised" /\ err = "IndexError"
    /\ indices_of_marked_elements = <<1, 4>>

\* ----------------------------------------------------------------- C13
RECURSIVE Ascending(_)
\* the elements of a set of integers as a list without repeats, smallest first
Ascending(S) ==
    IF S = {} THEN <<>>
    ELSE LET m == CHOOSE x \in S : \A y \in S : x <= y
         IN <<m>> \o Ascending(S \ {m})

\* C13: for every list L of in-range indices, phase_oracle(n, L) builds the
\* matrix phase_oracle builds for L with the repeats removed, in whatever order
\* L names the indices: the matrix of the ascending repeat-free list of L's
\* indices.
C13_RepeatsAndOrderDoNotMatter ==
    (fn = "phase_oracle" /\ pc = "done" /\ InRange(indices_of_marked_elements, n))
    => qc = phase_oracle(n, Ascending(MarkedSet(indices_of_marked_elements))).qc

C13_Witness ==
    /\ fn = "phase_oracle" /\ pc = "done" /\ n = 2
    /\ indices_of_marked_elements = <<3, 3>>
    /\ qc[1].matrix[3][3] = -1

\* ----------------------------------------------------------------- C14
\* the oracles appended to the circuit so far are all the same instruction
OraclesAgree ==
    \A j, k \in 1..Len(qc) :
        (IsOracleInstr(qc[j]) /\ IsOracleInstr(qc[k])) => qc[j] = qc[k]

Phase ==
    CASE pc \in {"start", "h"} -> "UNINITIALIZED"
      [] pc = "loop" /\ round = 0 -> "SUPERPOSED"
      [] pc = "diffuse" -> "OracleApplied"
      [] pc = "loop" /\ round > 0 -> "DiffusedApplied"
      [] pc = "done" -> "MEASURED"
      [] OTHER -> "FAILED"

PhaseSteps ==
    {<<"UNINITIALIZED", "SUPERPOSED">>,
     <<"SUPERPOSED", "OracleApplied">>,
     <<"OracleApplied", "DiffusedApplied">>,
     <<"DiffusedApplied", "OracleApplied">>,
     <<"SUPERPOSED", "MEASURED">>,
     <<"DiffusedApplied", "MEASURED">>}

\* Grover was called with a non-empty list of in-range indices
ValidGroverCall ==
    /\ fn = "Grover"
    /\ indices_of_marked_elements # <<>>
    /\ InRange(indices_of_marked_elements, n)

\* C15: called with a non-empty in-range list, Grover moves only along
\* UNINITIALIZED -> SUPERPOSED -> (OracleApplied -> DiffusedApplied)* ->
\* MEASURED, always reaches MEASURED, and for an effective r >= 0 the circuit
\* then holds exactly r oracles and exactly r diffusers.
C15_GroverRunsToMeasured ==
    /\ [][(ValidGroverCall /\ fn' = "Grover" /\ Phase' # Phase)
            => <<Phase, Phase'>> \in PhaseSteps]_vars
    /\ []((ValidGroverCall /\ pc = "done" /\ r >= 0)
            => (Count(IsOracleInstr) = r /\ Count(IsDiffuserInstr) = r))
    /\ []((ValidGroverCall /\ pc = "start") => <>(fn = "Grover" /\ pc = "done"))

C15_Witness ==
    /\ ValidGroverCall /\ pc = "done" /\ n = 2 /\ r = 2 /\ round = 2
    /\ Count(IsOracleInstr) = 2
    /\ Count(IsDiffuserInstr) = 2

\* ----------------------------------------------------------------- C16
\* the vector with amplitude -1/2 on S and +1/2 elsewhere (n = 2: 1/2 is
\* 1 / sqrt(2)^2)
HalfWithSigns(nq, S) ==
    Vec([i \in 0..(Dim(nq) - 1) |-> IF i \in S THEN -1 ELSE 1], 2)

\* C16: for n = 2 and any list of in-range indices, the circuit
\* Grover_Step_I returns for one round is the Hadamard step, which takes |00>
\* to amplitude 1/2 everywhere, and one oracle; its statevector is -1/2 at every
\* marked index and 1/2 at every other index.
C16_StepIFlipsMarkedHalves ==
    (/\ fn = "Grover_Step_I" /\ pc = "done" /\ n = 2 /\ r = 1
     /\ InRange(indices_of_marked_elements, n))
    => /\ Len(qc) = n + 1
       /\ Statevector(SubSeq(qc, 1, n), n) = HalfWithSigns(n, {})
       /\ applied = 1 =>
            psi = HalfWithSigns(n, MarkedSet(indices_of_marked_elements))

C16_Witness ==
    /\ fn = "Grover_Step_I" /\ pc = "done" /\ n = 2 /\ r = 1 /\ applied = 1
    /\ indices_of_marked_elements = <<1>>
    /\ psi = Vec((0 :> 1 @@ 1 :> -1 @@ 2 :> 1 @@ 3 :> 1), 2)

\* ----------------------------------------------------------------- C17
\* the squared amplitudes of amp / sqrt(2)^sc sum to 1
HasNormOne(st) ==
    /\ st.sc >= 0
    /\ Total([i \in DOMAIN st.amp |-> st.amp[i] * st.amp[i]]) = Pow2(st.sc)

\* C17: whatever Grover has appended so far (the Hadamard step, then each
\* oracle and each diffuser), the state the circuit takes |0...0> to has
\* squared amplitudes that sum to 1.  (A shot leaves the circuit as it is, so
\* the states before the shot cover every circuit.)
C17_NormIsOneAfterEveryStep ==
    (fn = "Grover" /\ counts = -1) => HasNormOne(Statevector(qc, n))

C17_Witness ==
    /\ fn = "Grover" /\ pc = "diffuse" /\ n = 2 /\ r = 2 /\ round = 1
    /\ indices_of_marked_elements = <<1, 2>>
    /\ Statevector(qc, n) = Vec((0 :> 1 @@ 1 :> 1 @@ 2 :> 1 @@ 3 :> 1), 2)

\* ----------------------------------------------------------------- C18
\* C18: called with an explicit r < 0, Grover keeps that r, raises nothing
\* whatever the marked list, never enters the round loop, and returns the
\* Hadamard step followed directly by the measurement.
C18_NegativeRMeansNoRounds ==
    (fn = "Grover" /\ r_supplied /\ r_arg < 0)
    => /\ r = r_arg
       /\ pc \notin {"diffuse", "raised"} /\ err = ""
       /\ round = 0
       /\ pc = "done" =>
            /\ qc = SubSeq(qc, 1, n) \o SubSeq(qc, Len(qc) - n + 1, Len(qc))
            /\ IsHLayer(SubSeq(qc, 1, n), n)
            /\ IsMeasureLayer(SubSeq(qc, Len(qc) - n + 1, Len(qc)), n)

C18_Witness ==
    /\ fn = "Grover" /\ r_supplied /\ r_arg = -1 /\ pc = "done" /\ n = 2
    /\ indices_of_marked_elements = <<1>>
    /\ Len(qc) = 4
    /\ counts = 3

\* ----------------------------------------------------------------- C19
\* C19: called with the arguments Grover was called with, Grover_Step_II
\* settles on the same r, raises exactly the error Grover raised if any, and
\* otherwise returns Grover's instruction list with only the final measurement
\* of the n qubits removed; its statevector is the state Grover's circuit holds
\* when the measurement is reached.
C19_StepIIIsGroverWithoutMeasure ==
    fn = "Grover_Step_II"
    => /\ pc \in {"h", "loop", "diffuse", "done"} => r = circuit.r
       /\ pc = "raised" => err = circuit.err
       /\ pc = "done" =>
            /\ circuit.err = ""
            /\ Len(circuit.qc) = Len(qc) + n
            /\ SubSeq(circuit.qc, 1, Len(qc)) = qc
            /\ IsMeasureLayer(SubSeq(circuit.qc, Len(qc) + 1, Len(qc) + n), n)
            /\ \A k \in 1..Len(qc) : qc[k].op # "measure"
            /\ applied = 1 => psi = Statevector(circuit.qc, n)

C19_Witness ==
    /\ fn = "Grover_Step_II" /\ pc = "done" /\ applied = 1 /\ n = 2
    /\ ~r_supplied
    /\ indices_of_marked_elements = <<1>>
    /\ Len(circuit.qc) = 6
    /\ psi = MinusBasis(2, 1)

====
